---- MODULE Spec2Model ----
(***************************************************************************)
(* Model of src/main.py: the TreatmentPlanner knowledge repository, its    *)
(* keyword search, the report generator and the Streamlit main() rerun.    *)
(*                                                                         *)
(* Representation of the Python values:                                    *)
(*   str            a sequence of one-character strings ("text")           *)
(*   list           a sequence                                             *)
(*   dict           a function from key strings to values; a key that the  *)
(*                  JSON object does not hold is not in its DOMAIN         *)
(*   variant dict   a sequence of entries [key, type, value] in insertion  *)
(*                  order, because get_patient_groups iterates its items() *)
(*                  and tests the keys' prefix and the values' type        *)
(*   None           the empty sequence <<>>, Some x the sequence <<x>>      *)
(***************************************************************************)
EXTENDS Integers, Sequences, FiniteSets, TLC

(***************************************************************************)
(* Bounds of the model.                                                    *)
(***************************************************************************)
MaxRuns == 3
MaxGroups == 2
MaxFields == 2
MaxDiseases == 2

(***************************************************************************)
(* Text.                                                                   *)
(***************************************************************************)
UpperCase == <<"A","B","C","D","E","F","G","H","I","J","K","L","M",
               "N","O","P","Q","R","S","T","U","V","W","X","Y","Z">>
LowerCase == <<"a","b","c","d","e","f","g","h","i","j","k","l","m",
               "n","o","p","q","r","s","t","u","v","w","x","y","z">>

\* str.lower() on one character
LowerChar(c) ==
    IF \E i \in 1..Len(UpperCase) : UpperCase[i] = c
    THEN LowerCase[CHOOSE i \in 1..Len(UpperCase) : UpperCase[i] = c]
    ELSE c

\* str.lower()
lower(s) == [i \in 1..Len(s) |-> LowerChar(s[i])]

\* the Python operator `needle in hay` on two str
InStr(needle, hay) ==
    \E i \in 0..(Len(hay) - Len(needle)) :
        SubSeq(hay, i + 1, i + Len(needle)) = needle

\* str.startswith(prefix)
startswith(s, prefix) ==
    /\ Len(prefix) <= Len(s)
    /\ SubSeq(s, 1, Len(prefix)) = prefix

Digits == <<"0","1","2","3","4","5","6","7","8","9">>

\* str(n) / the f-string conversion of a non-negative int
RECURSIVE IntToStr(_)
IntToStr(n) ==
    IF n < 10 THEN <<Digits[n + 1]>>
    ELSE IntToStr(n \div 10) \o <<Digits[(n % 10) + 1]>>

\* sep.join(parts)
RECURSIVE Join(_, _)
Join(parts, sep) ==
    IF Len(parts) = 0 THEN <<>>
    ELSE IF Len(parts) = 1 THEN parts[1]
    ELSE parts[1] \o sep \o Join(Tail(parts), sep)

\* str.replace(' ', '_')
ReplaceSpaces(s) == [i \in 1..Len(s) |-> IF s[i] = " " THEN "_" ELSE s[i]]

\* the concatenation of a sequence of sequences (list unpacking, nested appends)
RECURSIVE Flatten(_)
Flatten(ss) == IF Len(ss) = 0 THEN <<>> ELSE ss[1] \o Flatten(Tail(ss))

(***************************************************************************)
(* dict access.                                                            *)
(***************************************************************************)
\* dict.get(key, default)
Get(d, key, default) == IF key \in DOMAIN d THEN d[key] ELSE default

\* the keys of the variant record (an ordered dict)
VariantKeys(variant) == {variant[i].key : i \in 1..Len(variant)}

\* variant[key]
VariantItem(variant, key) ==
    variant[CHOOSE i \in 1..Len(variant) : variant[i].key = key].value

(***************************************************************************)
(* String literals of the source. Cyrillic literals are transliterated.    *)
(***************************************************************************)
KEY_NAME == <<"n","a","m","e">>
KEY_ICD == <<"I","C","D","-","1","0","_","c","o","d","e">>
KEY_CONTRA == <<"g","e","n","e","r","a","l","_","c","o","n","t","r","a">>
GROUP_PREFIX == <<"v","a","r","i","k">>
NO_DESCRIPTION == <<"O","p","i","s","a","n","i","e"," ","o","t","s","u","t","s","t","v","u","e","t">>
NO_NAME == <<"B","e","z"," ","n","a","z","v","a","n","i","y","a">>
JOINT_TITLE == <<"S","o","v","m","e","s","t","n","y","e",":"," ">>
NO_METHODS == <<"N","e"," ","u","k","a","z","a","n","y">>
COMMA == <<",", " ">>

(***************************************************************************)
(* TreatmentPlanner                                                        *)
(***************************************************************************)
\* get_diseases listing the names last to first
get_diseases_reversed(knowledge_base) ==
    [i \in 1..Len(knowledge_base["disease"]) |->
        knowledge_base["disease"][Len(knowledge_base["disease"]) + 1 - i]["name"]]

\* get_diseases
get_diseases(knowledge_base) ==
    [i \in 1..Len(knowledge_base["disease"]) |-> knowledge_base["disease"][i]["name"]]

\* get_disease_variants falling back to the first disease for an unknown name
get_disease_variants_or_first(knowledge_base, disease_name) ==
    LET diseases == knowledge_base["disease"]
        hits == {i \in 1..Len(diseases) : diseases[i]["name"] = disease_name}
    IN  IF Len(diseases) = 0 THEN <<>>
        ELSE IF hits = {} THEN diseases[1]["type_variant"]
        ELSE diseases[CHOOSE i \in hits : \A j \in hits : i <= j]["type_variant"]

\* get_disease_variants: the first disease with that name, [] when there is none
get_disease_variants(knowledge_base, disease_name) ==
    LET diseases == knowledge_base["disease"]
        hits == {i \in 1..Len(diseases) : diseases[i]["name"] = disease_name}
    IN  IF hits = {} THEN <<>>
        ELSE diseases[CHOOSE i \in hits : \A j \in hits : i <= j]["type_variant"]

\* the id without the index of the group in its field
GroupIdWithoutIndex(key, idx) == key

\* the f-string "{key}_{idx}"
GroupId(key, idx) == key \o <<"_">> \o IntToStr(idx)

\* the inner loop of get_patient_groups over one field's list
GroupsOfField(key, value) ==
    [n \in 1..Len(value) |->
        [id          |-> GroupId(key, n - 1),
         description |-> Get(value[n], "patients_indications", NO_DESCRIPTION),
         data        |-> value[n]]]

\* the condition of get_patient_groups on one item of the variant
IsGroupField(entry) ==
    /\ startswith(entry.key, GROUP_PREFIX)
    /\ entry.type = "list"
    /\ Len(entry.value) > 0

\* get_patient_groups
get_patient_groups(variant) ==
    Flatten([i \in 1..Len(variant) |->
        IF IsGroupField(variant[i])
        THEN GroupsOfField(variant[i].key, variant[i].value)
        ELSE <<>>])

\* get_group_plan with the default description of get_patient_groups
get_group_plan_placeholder(variant_name, group_data) ==
    [variant           |-> variant_name,
     group_description |-> Get(group_data, "patients_indications", NO_DESCRIPTION),
     stages            |-> Get(group_data, "stage", <<>>)]

\* get_group_plan
get_group_plan(variant_name, group_data) ==
    [variant           |-> variant_name,
     group_description |-> Get(group_data, "patients_indications", <<>>),
     stages            |-> Get(group_data, "stage", <<>>)]

\* any(keyword_lower in str(field) for field in fields): the field as written
AnyFieldHasCaseSensitive(fields, keyword_lower) ==
    \E i \in 1..Len(fields) : InStr(keyword_lower, fields[i])

\* any(keyword_lower in str(field).lower() for field in fields)
AnyFieldHas(fields, keyword_lower) ==
    \E i \in 1..Len(fields) : InStr(keyword_lower, lower(fields[i]))

\* _method_matches with "used material" left out of fields_to_check
method_matches_without_material(method, keyword_lower) ==
    LET fields_to_check ==
            <<Get(method, "name method", <<>>)>>
            \o Get(method, "indications", <<>>)
            \o Get(method, "medicines", <<>>)
            \o <<Get(method, "recommendations", <<>>)>>
    IN  AnyFieldHas(fields_to_check, keyword_lower)

\* _method_matches
method_matches(method, keyword_lower) ==
    LET fields_to_check ==
            <<Get(method, "name method", <<>>)>>
            \o Get(method, "indications", <<>>)
            \o Get(method, "medicines", <<>>)
            \o Get(method, "used material", <<>>)
            \o <<Get(method, "recommendations", <<>>)>>
    IN  AnyFieldHas(fields_to_check, keyword_lower)

\* method_fields of _joint_matches with the method's indications added, as
\* _method_matches has them
JointMethodFieldsWithIndications(method) ==
    <<Get(method, "name method", <<>>)>>
    \o Get(method, "indications", <<>>)
    \o Get(method, "medicines", <<>>)
    \o Get(method, "used material", <<>>)

\* the fields of one contained method that _joint_matches looks at
JointMethodFields(method) ==
    <<Get(method, "name method", <<>>)>>
    \o Get(method, "medicines", <<>>)
    \o Get(method, "used material", <<>>)

\* _joint_matches
joint_matches(joint, keyword_lower) ==
    LET fields_to_check ==
            Get(joint, "indications", <<>>)
            \o <<Get(joint, "recommendations", <<>>)>>
        methods == Get(joint, "methods", <<>>)
    IN  \/ AnyFieldHas(fields_to_check, keyword_lower)
        \/ \E i \in 1..Len(methods) :
               AnyFieldHas(JointMethodFields(methods[i]), keyword_lower)

\* _format_method_result with the placeholder of the name as the default of the
\* recommendations too
format_method_result_placeholder(method, disease, variant, group, stage_name, method_type) ==
    [method          |-> Get(method, "name method", NO_NAME),
     disease         |-> disease["name"],
     variant         |-> VariantItem(variant, KEY_NAME),
     group           |-> group.description,
     stage           |-> stage_name,
     indications     |-> Get(method, "indications", <<>>),
     medicines       |-> Get(method, "medicines", <<>>),
     materials       |-> Get(method, "used material", <<>>),
     recommendations |-> Get(method, "recommendations", NO_NAME),
     pages           |-> Get(method, "pages", <<>>),
     persuasiveness  |-> Get(method, "persuasiveness", <<>>),
     evidence        |-> Get(method, "evidence", <<>>),
     type            |-> method_type,
     joint_methods   |-> <<>>]

\* _format_method_result
format_method_result(method, disease, variant, group, stage_name, method_type) ==
    [method          |-> Get(method, "name method", NO_NAME),
     disease         |-> disease["name"],
     variant         |-> VariantItem(variant, KEY_NAME),
     group           |-> group.description,
     stage           |-> stage_name,
     indications     |-> Get(method, "indications", <<>>),
     medicines       |-> Get(method, "medicines", <<>>),
     materials       |-> Get(method, "used material", <<>>),
     recommendations |-> Get(method, "recommendations", <<>>),
     pages           |-> Get(method, "pages", <<>>),
     persuasiveness  |-> Get(method, "persuasiveness", <<>>),
     evidence        |-> Get(method, "evidence", <<>>),
     type            |-> method_type,
     joint_methods   |-> <<>>]

\* _format_joint_result
format_joint_result(joint, disease, variant, group, stage_name) ==
    LET methods == Get(joint, "methods", <<>>)
        method_names == [i \in 1..Len(methods) |-> Get(methods[i], "name method", NO_NAME)]
        methods_str == IF Len(method_names) > 0 THEN Join(method_names, COMMA) ELSE NO_METHODS
    IN  [method          |-> JOINT_TITLE \o methods_str,
         disease         |-> disease["name"],
         variant         |-> VariantItem(variant, KEY_NAME),
         group           |-> group.description,
         stage           |-> stage_name,
         indications     |-> Get(joint, "indications", <<>>),
         medicines       |-> <<>>,
         materials       |-> <<>>,
         recommendations |-> Get(joint, "recommendations", <<>>),
         pages           |-> <<>>,
         persuasiveness  |-> <<>>,
         evidence        |-> <<>>,
         type            |-> "joint",
         joint_methods   |-> methods]

\* the body of the stage loop of search_methods_by_keyword
SearchStage(stage, disease, variant, group, keyword_lower) ==
    LET stage_name == stage["name_stage"]
        alts == Get(stage, "alternative methods", <<>>)
        joint == Get(stage, "joint methods", <<>>)
    IN  Flatten([i \in 1..Len(alts) |->
            IF method_matches(alts[i], keyword_lower)
            THEN <<format_method_result(alts[i], disease, variant, group, stage_name, "alternative")>>
            ELSE <<>>])
        \o (IF DOMAIN joint # {} /\ joint_matches(joint, keyword_lower)
            THEN <<format_joint_result(joint, disease, variant, group, stage_name)>>
            ELSE <<>>)

\* the body of the variant loop of search_methods_by_keyword
SearchVariant(variant, disease, keyword_lower) ==
    LET groups == get_patient_groups(variant)
    IN  Flatten([g \in 1..Len(groups) |->
            LET stages == Get(groups[g].data, "stage", <<>>)
            IN  Flatten([s \in 1..Len(stages) |->
                    SearchStage(stages[s], disease, variant, groups[g], keyword_lower)])])

\* search_methods_by_keyword
search_methods_by_keyword(knowledge_base, keyword) ==
    LET keyword_lower == lower(keyword)
        diseases == knowledge_base["disease"]
    IN  Flatten([d \in 1..Len(diseases) |->
            Flatten([v \in 1..Len(diseases[d]["type_variant"]) |->
                SearchVariant(diseases[d]["type_variant"][v], diseases[d], keyword_lower)])])


(***************************************************************************)
(* generate_treatment_report. The text is kept as its sequence of lines,   *)
(* each [label, text]: label names the template line, text is the          *)
(* interpolated value.                                                     *)
(***************************************************************************)
Line(label, text) == [label |-> label, text |-> text]

Bullets(label, items) == [i \in 1..Len(items) |-> Line(label, items[i])]

\* the lines of one alternative method
ReportMethod(method) ==
    <<Line("method", Get(method, "name method", NO_NAME))>>
    \o Bullets("indication", Get(method, "indications", <<>>))
    \o Bullets("medicine", Get(method, "medicines", <<>>))
    \o Bullets("material", Get(method, "used material", <<>>))
    \o (IF Len(Get(method, "recommendations", <<>>)) > 0
        THEN <<Line("recommendations", method["recommendations"])>> ELSE <<>>)

\* the lines of one method of a joint block
ReportJointMethod(method) ==
    <<Line("joint_method", Get(method, "name method", NO_NAME))>>
    \o (IF Len(Get(method, "medicines", <<>>)) > 0
        THEN <<Line("joint_medicines", Join(method["medicines"], COMMA))>> ELSE <<>>)
    \o (IF Len(Get(method, "used material", <<>>)) > 0
        THEN <<Line("joint_materials", Join(method["used material"], COMMA))>> ELSE <<>>)

\* the lines of one stage
ReportStage(stage) ==
    LET alt_methods == Get(stage, "alternative methods", <<>>)
        joint == Get(stage, "joint methods", <<>>)
    IN  <<Line("stage", stage["name_stage"])>>
        \o (IF Len(alt_methods) > 0
            THEN <<Line("alternative_header", <<>>)>>
                 \o Flatten([i \in 1..Len(alt_methods) |-> ReportMethod(alt_methods[i])])
            ELSE <<>>)
        \o (IF DOMAIN joint # {} /\ Len(Get(joint, "methods", <<>>)) > 0
            THEN <<Line("joint_header", <<>>)>>
                 \o Bullets("joint_indication", Get(joint, "indications", <<>>))
                 \o (IF Len(Get(joint, "recommendations", <<>>)) > 0
                     THEN <<Line("joint_recommendations", joint["recommendations"])>> ELSE <<>>)
                 \o Flatten([i \in 1..Len(joint["methods"]) |-> ReportJointMethod(joint["methods"][i])])
            ELSE <<>>)

FILE_PREFIX == <<"t","r","e","a","t","m","e","n","t","_","p","l","a","n","_">>
FILE_SUFFIX == <<".","m","d">>

\* generate_treatment_report: the markdown shown and offered for download
generate_treatment_report(group_plan, variant) ==
    [report_text |->
        <<Line("variant", group_plan.variant),
          Line("icd", VariantItem(variant, KEY_ICD)),
          Line("group", group_plan.group_description)>>
        \o Flatten([i \in 1..Len(group_plan.stages) |-> ReportStage(group_plan.stages[i])]),
     file_name |-> FILE_PREFIX \o ReplaceSpaces(group_plan.variant) \o FILE_SUFFIX]


(***************************************************************************)
(* main(): one rerun of the Streamlit script.  What a rerun shows is kept  *)
(* in the record ui.                                                       *)
(***************************************************************************)
VARIABLES
    file,           \* base7.json as it is on disk
    session_state,  \* st.session_state
    loads,          \* number of calls of load_knowledge_base so far
    ui,             \* what the last rerun rendered, and how it ended
    call            \* the last direct call of the repository, and what it returned

vars == <<file, session_state, loads, ui, call>>

\* the page before anything of a mode is rendered
BlankUi(mode) ==
    [mode             |-> mode,
     error            |-> "none",
     cached           |-> FALSE,
     messages         |-> <<>>,
     selected_variant |-> <<>>,
     selected_group   |-> <<>>,
     group_plan       |-> <<>>,
     report           |-> <<>>,
     results          |-> <<>>,
     stats            |-> <<>>,
     groups           |-> <<>>,
     pick             |-> <<>>,
     search_term      |-> <<>>]

\* st.selectbox(label, options): the option the user picked, the first by default
Selectbox(options, pick) ==
    options[IF pick \in 1..Len(options) THEN pick ELSE 1]

\* next(x for x in xs if ...): hits are the indices of the x the condition
\* holds of; xs holds such an x wherever main() calls it
First(xs, hits) == xs[CHOOSE i \in hits : \A j \in hits : i <= j]

\* the group selector of main(): selected_group, None when there is no group
SelectGroup(groups, gPick) ==
    IF Len(groups) > 0
    THEN LET group_descriptions == [i \in 1..Len(groups) |-> groups[i].description]
             selected_group_desc == Selectbox(group_descriptions, gPick)
         IN  <<First(groups, {i \in 1..Len(groups) :
                                groups[i].description = selected_group_desc})>>
    ELSE <<>>

\* the plan section of main(), entered when a variant and a group are selected
PlanSection(page, selected_variant, selected_group, clicked) ==
    LET group_plan == get_group_plan(VariantItem(selected_variant, KEY_NAME), selected_group.data)
    IN  [page EXCEPT
            !.selected_variant = <<selected_variant>>,
            !.selected_group = <<selected_group>>,
            !.group_plan = <<group_plan>>,
            !.messages = IF Len(group_plan.stages) > 0 THEN @ ELSE Append(@, "info_no_plan"),
            !.report = IF clicked
                       THEN <<generate_treatment_report(group_plan, selected_variant)>>
                       ELSE <<>>]

\* the else branch of `if groups` without `selected_group = None`: the name is
\* unbound where the plan section reads it
NoGroupsUnbound(page, selected_variant) ==
    [page EXCEPT !.selected_variant = <<selected_variant>>,
                 !.messages = <<"warning_no_groups">>,
                 !.error = "UnboundLocalError"]

\* the else branch of `if groups`: a warning and selected_group = None, so that
\* neither the general information nor the plan section is entered
NoGroups(page, selected_variant) ==
    [page EXCEPT !.selected_variant = <<selected_variant>>,
                 !.messages = <<"warning_no_groups">>]

\* main() in the mode "treatment planning"
PlanningPage(planner, dPick, vPick, gPick, clicked) ==
    LET page == [BlankUi("planning") EXCEPT !.pick = <<dPick, vPick, gPick>>]
        kb == planner.knowledge_base
    IN  IF "disease" \notin DOMAIN kb THEN [page EXCEPT !.error = "KeyError"]
        ELSE
        LET diseases == get_diseases(kb)
        IN  IF Len(diseases) = 0
            THEN [page EXCEPT !.messages = <<"error_kb_unavailable">>]
            ELSE
            LET selected_disease == Selectbox(diseases, dPick)
            IN  IF Len(selected_disease) = 0
                THEN \* selected_variant is never bound, and is read after the columns
                     [page EXCEPT !.error = "UnboundLocalError"]
                ELSE
                LET variants == get_disease_variants(kb, selected_disease)
                    variant_names == [i \in 1..Len(variants) |-> VariantItem(variants[i], KEY_NAME)]
                IN  IF Len(variant_names) = 0
                    THEN [page EXCEPT !.messages = <<"warning_no_variants">>]
                    ELSE
                    LET selected_variant_name == Selectbox(variant_names, vPick)
                        selected_variant ==
                            First(variants, {i \in 1..Len(variants) :
                                VariantItem(variants[i], KEY_NAME) = selected_variant_name})
                        groups == get_patient_groups(selected_variant)
                        selected_group == SelectGroup(groups, gPick)
                        shown == [page EXCEPT !.groups = <<groups>>]
                    IN  IF Len(selected_group) = 0
                        THEN NoGroups(shown, selected_variant)
                        ELSE PlanSection(shown, selected_variant, selected_group[1], clicked)

\* main() in the mode "method search"
SearchPage(planner, search_term) ==
    LET page == [BlankUi("search") EXCEPT !.search_term = search_term]
        kb == planner.knowledge_base
    IN  IF Len(search_term) = 0 THEN page
        ELSE IF "disease" \notin DOMAIN kb THEN [page EXCEPT !.error = "KeyError"]
        ELSE LET results == search_methods_by_keyword(kb, search_term)
             IN  [page EXCEPT
                     !.results = <<results>>,
                     !.messages = IF Len(results) > 0 THEN @ ELSE <<"warning_nothing_found">>]

\* the counters the knowledge-base browser shows for one variant
VariantStats(variant) ==
    LET groups == get_patient_groups(variant)
        stages == Flatten([g \in 1..Len(groups) |-> Get(groups[g].data, "stage", <<>>)])
        JointCount(stage) == Len(Get(Get(stage, "joint methods", <<>>), "methods", <<>>))
        AltCount(stage) == Len(Get(stage, "alternative methods", <<>>))
        RECURSIVE Sum(_, _)
        Sum(Count(_), n) == IF n = 0 THEN 0 ELSE Count(stages[n]) + Sum(Count, n - 1)
    IN  [variant |-> VariantItem(variant, KEY_NAME),
         groups  |-> Len(groups),
         stages  |-> Len(stages),
         alt     |-> Sum(AltCount, Len(stages)),
         joint   |-> Sum(JointCount, Len(stages))]

\* main() in the mode "knowledge base"
BrowsePage(planner) ==
    LET page == BlankUi("browse")
        kb == planner.knowledge_base
    IN  IF "disease" \notin DOMAIN kb THEN [page EXCEPT !.error = "KeyError"]
        ELSE [page EXCEPT !.stats =
                Flatten([d \in 1..Len(kb["disease"]) |->
                    [v \in 1..Len(kb["disease"][d]["type_variant"]) |->
                        VariantStats(kb["disease"][d]["type_variant"][v])]])]

\* TreatmentPlanner(json_path): __init__ and load_knowledge_base.  open() raises
\* FileNotFoundError and json.load raises JSONDecodeError; nothing catches them.
TreatmentPlanner(f) ==
    IF f.status = "ok" THEN [error |-> "none", planner |-> <<[knowledge_base |-> f.data]>>]
    ELSE IF f.status = "missing" THEN [error |-> "FileNotFoundError", planner |-> <<>>]
    ELSE [error |-> "JSONDecodeError", planner |-> <<>>]

\* the head of main() without the test of st.session_state: every rerun loads
EnsurePlannerEveryRun(state, f) ==
    LET made == TreatmentPlanner(f)
    IN  [attempts |-> 1,
         error    |-> made.error,
         state    |-> IF made.error = "none" THEN ("planner" :> made.planner[1]) ELSE state]

\* the head of main(): the planner is built once and kept in st.session_state
EnsurePlanner(state, f) ==
    IF "planner" \notin DOMAIN state
    THEN LET made == TreatmentPlanner(f)
         IN  [attempts |-> 1,
              error    |-> made.error,
              state    |-> IF made.error = "none" THEN ("planner" :> made.planner[1]) ELSE state]
    ELSE [attempts |-> 0, error |-> "none", state |-> state]

(***************************************************************************)
(* The knowledge documents base7.json may hold.                            *)
(***************************************************************************)
EmptyDict == [k \in {} |-> <<>>]

\* a dict with the key when the option holds a value, the empty dict when not
Opt(key, option) == IF Len(option) = 0 THEN EmptyDict ELSE key :> option[1]

Entry(key, type, value) == [key |-> key, type |-> type, value |-> value]

Variant(name, icd, fields) ==
    <<Entry(KEY_NAME, "str", name), Entry(KEY_ICD, "str", icd)>> \o fields

Disease(name, variants) == ("name" :> name) @@ ("type_variant" :> variants)

KnowledgeBase(diseases) == ("disease" :> diseases)

W1 == <<"A","b">>
W2 == <<"c">>
P1 == <<"P","1">>
S1 == <<"S","1">>
S2 == <<"S","2">>
D1 == <<"D","1">>
D2 == <<"D","2">>
V1 == <<"V"," ","1">>
V2 == <<"V"," ","2">>
ICD1 == <<"S","5","2">>
KEY_VARIK1 == <<"v","a","r","i","k","1">>
KEY_VARIK1_0 == <<"v","a","r","i","k","1","_","0">>
KEY_GROUP1 == <<"g","r","o","u","p","1">>

\* a field of a method, a block or a group: absent, or one of two values
StrOptions == {<<>>, <<W1>>, <<W2>>}
ListOptions == {<<>>, <<<<W1>>>>, <<<<W2, W1>>>>}
FewStrOptions == {<<>>, <<W1>>}
FewListOptions == {<<>>, <<<<W2, W1>>>>}

Grading(present) ==
    IF present
    THEN ("pages" :> <<W2>>) @@ ("persuasiveness" :> W1) @@ ("evidence" :> W2)
    ELSE EmptyDict

AltMethods ==
    {Opt("name method", n) @@ Opt("indications", i) @@ Opt("medicines", m)
        @@ Opt("used material", u) @@ Opt("recommendations", r) @@ Grading(x) :
        n \in StrOptions, i \in FewListOptions, m \in FewListOptions,
        u \in FewListOptions, r \in StrOptions, x \in BOOLEAN}

JointMethods ==
    {Opt("name method", n) @@ Opt("indications", i) @@ Opt("medicines", m)
        @@ Opt("used material", u) :
        n \in FewStrOptions, i \in FewListOptions, m \in FewListOptions, u \in FewListOptions}

JointMethodLists ==
    {<<>>, <<<<>>>>} \cup {<<<<jm>>>> : jm \in JointMethods}
                     \cup {<<<<EmptyDict, jm>>>> : jm \in JointMethods}

JointBlocks ==
    {Opt("indications", i) @@ Opt("recommendations", r) @@ Opt("methods", ms) :
        i \in ListOptions, r \in StrOptions, ms \in JointMethodLists}

MethodX == ("name method" :> W1) @@ ("medicines" :> <<W2>>)
MethodY == ("name method" :> W2) @@ ("indications" :> <<W1>>)
StageA == ("name_stage" :> S1) @@ ("alternative methods" :> <<MethodX>>)
StageB == ("name_stage" :> S2)
            @@ ("joint methods" :> (("indications" :> <<W1>>) @@ ("methods" :> <<MethodY>>)))
GroupA == ("patients_indications" :> P1) @@ ("stage" :> <<StageA>>)
GroupB == ("patients_indications" :> P1) @@ ("stage" :> <<StageB, StageA>>)
GroupNone == EmptyDict
GroupAt(n) == IF n % 3 = 0 THEN GroupA ELSE IF n % 3 = 1 THEN GroupB ELSE GroupNone

\* the document around one stage
DocOfStage(stage) ==
    KnowledgeBase(<<Disease(D1, <<Variant(V1, ICD1,
        <<Entry(KEY_VARIK1, "list", <<("patients_indications" :> P1) @@ ("stage" :> <<stage>>)>>)>>)>>)>>)

MethodDocs ==
    {DocOfStage(("name_stage" :> S1) @@ ("alternative methods" :> <<m>>)) : m \in AltMethods}
    \cup {DocOfStage(("name_stage" :> S1) @@ ("alternative methods" :> <<m1, m2>>)) :
            m1 \in {MethodX, MethodY, EmptyDict}, m2 \in {MethodX, MethodY}}

JointDocs ==
    {DocOfStage(("name_stage" :> S1) @@ ("joint methods" :> j)) : j \in JointBlocks}

\* the fields a variant holds after its name and code: up to MaxFields of the
\* candidate keys, in any order, each a string or a list of 0..MaxGroups groups
CandidateKeys == <<KEY_VARIK1, KEY_VARIK1_0, KEY_GROUP1>>

FieldOf(k, n) ==
    IF n < 0 THEN Entry(CandidateKeys[k], "str", <<>>)
    ELSE Entry(CandidateKeys[k], "list", [i \in 1..n |-> GroupAt(k + i)])

Layouts ==
    UNION {{<<ks, ns>> : ks \in {f \in [1..n -> 1..Len(CandidateKeys)] :
                                    \A a, b \in 1..n : a # b => f[a] # f[b]},
                         ns \in [1..n -> -1..MaxGroups]} :
           n \in 0..MaxFields}

VariantOfLayout(l) == Variant(V1, ICD1, [i \in 1..Len(l[1]) |-> FieldOf(l[1][i], l[2][i])])

GroupDocs == {KnowledgeBase(<<Disease(D1, <<VariantOfLayout(l)>>)>>) : l \in Layouts}

VariantPlain == Variant(V1, ICD1, <<Entry(KEY_VARIK1, "list", <<GroupA>>)>>)
VariantBare == Variant(V2, ICD1, <<Entry(KEY_CONTRA, "list", <<W1>>)>>)

DiseaseOptions ==
    {Disease(n, vs) : n \in {D1, D2},
                      vs \in {<<>>, <<VariantPlain>>, <<VariantBare, VariantPlain>>}}

DiseaseDocs ==
    UNION {{KnowledgeBase(ds) : ds \in [1..n -> DiseaseOptions]} : n \in 0..MaxDiseases}
    \cup {KnowledgeBase(<<Disease(<<>>, <<VariantPlain>>)>>)}

(***************************************************************************)
(* The scenario of the specification, with the group field named as the    *)
(* specification names it ("group1") and as get_patient_groups expects it  *)
(* ("varik1").                                                             *)
(***************************************************************************)
CLOSED_FRACTURE == <<"C","l","o","s","e","d"," ","f","r","a","c","t","u","r","e">>
TYPE_A == <<"T","y","p","e"," ","A">>
S52_5 == <<"S","5","2",".","5">>
ADULTS == <<"A","d","u","l","t","s"," ","w","i","t","h","o","u","t"," ","c","o","m","o","r","b","i","d","i","t","y">>
CONSERVATIVE == <<"C","o","n","s","e","r","v","a","t","i","v","e"," ","t","r","e","a","t","m","e","n","t">>
CAST == <<"C","a","s","t"," ","i","m","m","o","b","i","l","i","z","a","t","i","o","n">>
IBUPROFEN == <<"I","b","u","p","r","o","f","e","n">>
ibuprofen == <<"i","b","u","p","r","o","f","e","n">>

ScenarioDoc(group_key) ==
    KnowledgeBase(<<Disease(CLOSED_FRACTURE, <<Variant(TYPE_A, S52_5,
        <<Entry(group_key, "list",
            <<("patients_indications" :> ADULTS)
              @@ ("stage" :> <<("name_stage" :> CONSERVATIVE)
                               @@ ("alternative methods" :>
                                     <<("name method" :> CAST) @@ ("medicines" :> <<IBUPROFEN>>)>>)>>)>>)>>)>>)>>)

ScenarioDocs == {ScenarioDoc(KEY_GROUP1), ScenarioDoc(KEY_VARIK1)}

Documents == MethodDocs \cup JointDocs \cup GroupDocs \cup DiseaseDocs \cup ScenarioDocs

\* base7.json: a document, the JSON object {}, no file, or a file that is no JSON
Files ==
    {[status |-> "ok", data |-> d] : d \in Documents \cup {EmptyDict}}
    \cup {[status |-> st, data |-> EmptyDict] : st \in {"missing", "malformed"}}

\* what the user may type into the search box
Keywords == {<<>>, <<"a">>, <<"a","B">>, <<"b","c">>, <<"c">>, <<"z">>, ibuprofen}

(***************************************************************************)
(* The session: reruns of main().                                          *)
(***************************************************************************)
NoCall == [op |-> "none", error |-> "none", args |-> <<>>, ret |-> <<>>]

Init ==
    /\ file \in Files
    /\ session_state = EmptyDict
    /\ loads = 0
    /\ ui = BlankUi("start")
    /\ call = NoCall

\* the head of main() in this rerun
Started == EnsurePlanner(session_state, file)

\* a rerun that loads is counted; the model stops counting at MaxRuns
CanRun == IF Started.attempts = 0 THEN TRUE ELSE loads < MaxRuns

\* the planner main() works with after its head
Planner == Started.state["planner"]

\* what the rerun renders: the exception of the head, or the page of the mode
Rendered(mode, page) ==
    IF Started.error # "none"
    THEN [BlankUi(mode) EXCEPT !.error = Started.error]
    ELSE [page EXCEPT !.cached = (Started.attempts = 0)]

\* the choices the three selectors of the planning page offer on a document
PlanningPicks ==
    IF Started.error # "none" THEN {<<1, 1, 1>>}
    ELSE IF "disease" \notin DOMAIN Planner.knowledge_base THEN {<<1, 1, 1>>}
    ELSE IF Len(Planner.knowledge_base["disease"]) = 0 THEN {<<1, 1, 1>>}
    ELSE LET kb == Planner.knowledge_base
             VariantsAt(d) == kb["disease"][d]["type_variant"]
             GroupPicks(v) == IF Len(get_patient_groups(v)) = 0 THEN {1}
                              ELSE 1..Len(get_patient_groups(v))
         IN  UNION {UNION {{<<d, v, g>> : g \in GroupPicks(VariantsAt(d)[v])} :
                            v \in 1..Len(VariantsAt(d))}
                    \cup (IF Len(VariantsAt(d)) = 0 THEN {<<d, 1, 1>>} ELSE {}) :
                    d \in 1..Len(kb["disease"])}

RunPlanning ==
    \E pick \in PlanningPicks, clicked \in BOOLEAN :
        /\ CanRun
        /\ session_state' = Started.state
        /\ loads' = loads + Started.attempts
        /\ ui' = Rendered("planning", PlanningPage(Planner, pick[1], pick[2], pick[3], clicked))
        /\ UNCHANGED <<file, call>>

RunSearch ==
    \E search_term \in Keywords :
        /\ CanRun
        /\ session_state' = Started.state
        /\ loads' = loads + Started.attempts
        /\ ui' = Rendered("search", SearchPage(Planner, search_term))
        /\ UNCHANGED <<file, call>>

RunBrowse ==
    /\ CanRun
    /\ session_state' = Started.state
    /\ loads' = loads + Started.attempts
    /\ ui' = Rendered("browse", BrowsePage(Planner))
    /\ UNCHANGED <<file, call>>

Next == RunPlanning \/ RunSearch \/ RunBrowse

Spec == Init /\ [][Next]_vars

(***************************************************************************)
(* The repository called directly: a TreatmentPlanner built over the       *)
(* document, and calls of its methods and of generate_treatment_report.    *)
(***************************************************************************)
InitApi ==
    /\ file \in {f \in Files : f.status = "ok" /\ "disease" \in DOMAIN f.data}
    /\ session_state = ("planner" :> TreatmentPlanner(file).planner[1])
    /\ loads = 1
    /\ ui = BlankUi("start")
    /\ call = NoCall

Repository == session_state["planner"].knowledge_base

\* every variant of the document, with its disease
AllVariants ==
    UNION {{[disease |-> Repository["disease"][d], variant |-> Repository["disease"][d]["type_variant"][v]] :
                v \in 1..Len(Repository["disease"][d]["type_variant"])} :
           d \in 1..Len(Repository["disease"])}

\* every group record of the document, with its variant
AllGroups ==
    UNION {{[variant |-> dv.variant, group |-> get_patient_groups(dv.variant)[g]] :
                g \in 1..Len(get_patient_groups(dv.variant))} :
           dv \in AllVariants}

\* the disease names a caller may ask for
Names == {D1, D2, CLOSED_FRACTURE, W1}

Returned(op, args, ret) == [op |-> op, error |-> "none", args |-> args, ret |-> ret]

CallGetDiseases ==
    /\ call' = Returned("get_diseases", <<>>, get_diseases(Repository))
    /\ UNCHANGED <<file, session_state, loads, ui>>

CallGetDiseaseVariants ==
    \E disease_name \in Names :
        /\ call' = Returned("get_disease_variants", <<disease_name>>,
                            get_disease_variants(Repository, disease_name))
        /\ UNCHANGED <<file, session_state, loads, ui>>

CallGetPatientGroups ==
    \E dv \in AllVariants :
        /\ call' = Returned("get_patient_groups", <<dv.variant>>, get_patient_groups(dv.variant))
        /\ UNCHANGED <<file, session_state, loads, ui>>

CallGetGroupPlan ==
    \E vg \in AllGroups :
        /\ call' = Returned("get_group_plan",
                            <<VariantItem(vg.variant, KEY_NAME), vg.group.data>>,
                            get_group_plan(VariantItem(vg.variant, KEY_NAME), vg.group.data))
        /\ UNCHANGED <<file, session_state, loads, ui>>

CallSearch ==
    \E keyword \in Keywords :
        /\ call' = Returned("search_methods_by_keyword", <<keyword>>,
                            search_methods_by_keyword(Repository, keyword))
        /\ UNCHANGED <<file, session_state, loads, ui>>

CallReport ==
    \E vg \in AllGroups :
        LET group_plan == get_group_plan(VariantItem(vg.variant, KEY_NAME), vg.group.data)
        IN  /\ call' = Returned("generate_treatment_report", <<group_plan, vg.variant>>,
                                generate_treatment_report(group_plan, vg.variant))
            /\ UNCHANGED <<file, session_state, loads, ui>>

NextApi ==
    \/ CallGetDiseases
    \/ CallGetDiseaseVariants
    \/ CallGetPatientGroups
    \/ CallGetGroupPlan
    \/ CallSearch
    \/ CallReport

SpecApi == InitApi /\ [][NextApi]_vars


(***************************************************************************)
(* Vocabulary of the properties.                                           *)
(***************************************************************************)
\* two characters that differ at most in case
SameLetter(c, d) ==
    \/ c = d
    \/ \E i \in 1..Len(UpperCase) : {c, d} = {UpperCase[i], LowerCase[i]}

\* keyword K, compared case-insensitively, is a substring of the text
OccursIn(K, text) ==
    \E from \in 1..(Len(text) + 1) :
        /\ from + Len(K) - 1 <= Len(text)
        /\ \A i \in 1..Len(K) : SameLetter(K[i], text[from + i - 1])

\* the elements of a list
Elements(list) == {list[i] : i \in 1..Len(list)}

\* a string field of a record: the empty string when the record lacks it
StrField(d, key) == IF key \in DOMAIN d THEN d[key] ELSE <<>>

\* the strings of a list field of a record: none when the record lacks it
ListField(d, key) == IF key \in DOMAIN d THEN Elements(d[key]) ELSE {}

\* every stage of the document, with the disease, variant and group it is in
AllStages ==
    UNION {UNION {{[disease |-> dv.disease, variant |-> dv.variant,
                    group |-> get_patient_groups(dv.variant)[g], stage |-> stage] :
                      stage \in ListField(get_patient_groups(dv.variant)[g].data, "stage")} :
                  g \in 1..Len(get_patient_groups(dv.variant))} :
           dv \in AllVariants}

\* every alternative method of the document, with the stage it is in
AllAlternatives ==
    UNION {{[at |-> st, method |-> m] : m \in ListField(st.stage, "alternative methods")} :
           st \in AllStages}

\* every stage of the document that has a joint block
AllJointStages ==
    {st \in AllStages : DOMAIN StrField(st.stage, "joint methods") # {}}

SearchReturned == call.op = "search_methods_by_keyword"

\* the search result that stands for alternative method a.method
ResultOfAlternative(a) ==
    format_method_result(a.method, a.at.disease, a.at.variant, a.at.group,
                         a.at.stage["name_stage"], "alternative")

\* the search result that stands for the joint block of stage st
ResultOfJoint(st) ==
    format_joint_result(st.stage["joint methods"], st.disease, st.variant, st.group,
                        st.stage["name_stage"])

HasResult(type, result) ==
    \E i \in 1..Len(call.ret) : call.ret[i].type = type /\ call.ret[i] = result

\* K occurs in one of the five searched fields of an alternative method
AlternativeHolds(K, method) ==
    \/ OccursIn(K, StrField(method, "name method"))
    \/ \E t \in ListField(method, "indications") : OccursIn(K, t)
    \/ \E t \in ListField(method, "medicines") : OccursIn(K, t)
    \/ \E t \in ListField(method, "used material") : OccursIn(K, t)
    \/ OccursIn(K, StrField(method, "recommendations"))

\* C1: after search_methods_by_keyword(K), an alternative method of the document
\* has a result of type "alternative" exactly if K occurs, ignoring case, in its
\* name, an indication, a medicine, a used material or its recommendations; and
\* every result of type "alternative" stands for such a method.
C1_AlternativeFoundIffKeywordInFields ==
    SearchReturned =>
        /\ \A a \in AllAlternatives :
               HasResult("alternative", ResultOfAlternative(a))
                   <=> AlternativeHolds(call.args[1], a.method)
        /\ \A i \in 1..Len(call.ret) :
               call.ret[i].type = "alternative" =>
                   \E a \in AllAlternatives :
                       /\ call.ret[i] = ResultOfAlternative(a)
                       /\ AlternativeHolds(call.args[1], a.method)

\* a search in upper and lower case found a method by its used material alone
C1_Witness ==
    /\ SearchReturned
    /\ call.args[1] = <<"a","B">>
    /\ \E a \in AllAlternatives :
           /\ HasResult("alternative", ResultOfAlternative(a))
           /\ \E t \in ListField(a.method, "used material") : OccursIn(call.args[1], t)
           /\ DOMAIN a.method = {"used material"}

\* K occurs in the block's indications or recommendations, or in the name,
\* medicines or used materials of a method of the block
JointHolds(K, joint) ==
    \/ \E t \in ListField(joint, "indications") : OccursIn(K, t)
    \/ OccursIn(K, StrField(joint, "recommendations"))
    \/ \E m \in ListField(joint, "methods") :
           \/ OccursIn(K, StrField(m, "name method"))
           \/ \E t \in ListField(m, "medicines") : OccursIn(K, t)
           \/ \E t \in ListField(m, "used material") : OccursIn(K, t)

\* K occurs in the indications of a method of the block
JointMethodIndicationHolds(K, joint) ==
    \E m \in ListField(joint, "methods") :
        \E t \in ListField(m, "indications") : OccursIn(K, t)

\* C2: after search_methods_by_keyword(K), the joint block of a stage has a result
\* of type "joint" exactly if K occurs, ignoring case, in the block's indications
\* or recommendations or in the name, medicines or used materials of one of its
\* methods; K in the indications of a contained method alone gives no result.
C2_JointFoundIffKeywordInBlockOrMethods ==
    SearchReturned =>
        /\ \A st \in AllJointStages :
               HasResult("joint", ResultOfJoint(st))
                   <=> JointHolds(call.args[1], st.stage["joint methods"])
        /\ \A st \in AllJointStages :
               (/\ JointMethodIndicationHolds(call.args[1], st.stage["joint methods"])
                /\ ~JointHolds(call.args[1], st.stage["joint methods"]))
                   => ~HasResult("joint", ResultOfJoint(st))
        /\ \A i \in 1..Len(call.ret) :
               call.ret[i].type = "joint" =>
                   \E st \in AllJointStages : call.ret[i] = ResultOfJoint(st)

\* a search whose keyword is in the indications of a contained method only
\* returned nothing for the block
C2_Witness ==
    /\ SearchReturned
    /\ call.args[1] = <<"c">>
    /\ \E st \in AllJointStages :
           /\ JointMethodIndicationHolds(call.args[1], st.stage["joint methods"])
           /\ ~JointHolds(call.args[1], st.stage["joint methods"])
           /\ Len(call.ret) = 0


(***************************************************************************)
(* The scenario document.                                                  *)
(***************************************************************************)
\* the repository holds the scenario document with its group field named key
IsScenario(key) ==
    /\ get_diseases(Repository) = <<CLOSED_FRACTURE>>
    /\ Repository["disease"][1]["type_variant"][1][3].key = key

GROUP1_0 == <<"g","r","o","u","p","1","_","0">>
VARIK1_0 == <<"v","a","r","i","k","1","_","0">>

\* what the scenario promises of the last call: one group with the id, one result
ScenarioAnswers(id) ==
    /\ call.op = "get_patient_groups" =>
           (Len(call.ret) = 1 /\ call.ret[1].id = id)
    /\ (SearchReturned /\ call.args[1] = ibuprofen) =>
           (Len(call.ret) = 1 /\ call.ret[1].method = CAST)

\* C3 as stated: with the group field named "group1", get_patient_groups returns
\* one entry with id "group1_0" and search("ibuprofen") returns exactly the result
\* "Cast immobilization".
C3_ScenarioWithGroup1 == IsScenario(KEY_GROUP1) => ScenarioAnswers(GROUP1_0)

\* C3 amended: with the group field named "varik1", the prefix get_patient_groups
\* looks for, get_patient_groups returns one entry with id "varik1_0" and
\* search("ibuprofen") returns exactly the result "Cast immobilization"; with the
\* field named "group1" both return nothing.
C3_ScenarioWithVarik1 ==
    /\ IsScenario(KEY_VARIK1) => ScenarioAnswers(VARIK1_0)
    /\ (IsScenario(KEY_GROUP1) /\ call.op = "get_patient_groups") => Len(call.ret) = 0
    /\ (IsScenario(KEY_GROUP1) /\ SearchReturned) => Len(call.ret) = 0

\* the scenario document was searched for "ibuprofen" and one result came back
C3_Witness ==
    /\ IsScenario(KEY_VARIK1)
    /\ SearchReturned
    /\ call.args[1] = ibuprofen
    /\ Len(call.ret) = 1

(***************************************************************************)
(* The load.                                                               *)
(***************************************************************************)
Loaded == "planner" \in DOMAIN session_state

\* C4: after a rerun over a missing or malformed file no exception has left the
\* repository, and the session holds a planner whose document the caller finds
\* empty.
C4_LoadFailureSurfacedAsUnavailable ==
    (file.status \in {"missing", "malformed"} /\ ui.mode # "start") =>
        /\ ui.error = "none"
        /\ Loaded
        /\ Len(get_diseases(session_state["planner"].knowledge_base)) = 0

\* C6: once the planner is in the session, no rerun loads again or changes the
\* document the session holds; and the one load put the file's document there.
C6_LoadedOnceThenReadOnly ==
    /\ [][Loaded => (session_state' = session_state /\ loads' = loads)]_vars
    /\ [](Loaded => (loads = 1 /\ session_state["planner"].knowledge_base = file.data))

\* a rerun found the planner in the session and searched the document
C6_Witness ==
    /\ Loaded
    /\ ui.cached
    /\ ui.mode = "search"
    /\ Len(ui.results) = 1
    /\ Len(ui.results[1]) > 0

(***************************************************************************)
(* get_patient_groups.                                                     *)
(***************************************************************************)
\* the places of the groups in a variant: <<position of the field, index in its list>>
Slots(variant) ==
    UNION {{<<p, n>> : n \in 1..(IF variant[p].type = "list" THEN Len(variant[p].value) ELSE 0)} :
           p \in {q \in 1..Len(variant) : startswith(variant[q].key, GROUP_PREFIX)}}

\* field order first, list order second
Before(a, b) == a[1] < b[1] \/ (a[1] = b[1] /\ a[2] < b[2])

Rank(variant, slot) == Cardinality({t \in Slots(variant) : Before(t, slot)}) + 1

\* C5: get_patient_groups(V) returns one entry per group of V's group fields,
\* ordered by the position of the field in V and then by the index in the field's
\* list, with the id "<key>_<index>"; the ids are pairwise distinct.
C5_GroupsInFieldThenListOrder ==
    call.op = "get_patient_groups" =>
        LET variant == call.args[1]
        IN  /\ Len(call.ret) = Cardinality(Slots(variant))
            /\ \A slot \in Slots(variant) :
                   /\ call.ret[Rank(variant, slot)].data = variant[slot[1]].value[slot[2]]
                   /\ call.ret[Rank(variant, slot)].id
                          = variant[slot[1]].key \o <<"_">> \o IntToStr(slot[2] - 1)
            /\ \A i, j \in 1..Len(call.ret) : i # j => call.ret[i].id # call.ret[j].id

\* groups of two fields came back, the field "varik1_0" before the field "varik1"
C5_Witness ==
    /\ call.op = "get_patient_groups"
    /\ Len(call.args[1]) = 4
    /\ call.args[1][3].key = KEY_VARIK1_0
    /\ call.args[1][4].key = KEY_VARIK1
    /\ Len(call.ret) = 4
    /\ call.ret[1].id = KEY_VARIK1_0 \o <<"_","0">>
    /\ call.ret[3].id = VARIK1_0

(***************************************************************************)
(* Missing optional fields.                                                *)
(***************************************************************************)
\* a method with every optional list and string written out as empty
FillMethod(m) ==
    m @@ ("indications" :> <<>>) @@ ("medicines" :> <<>>) @@ ("used material" :> <<>>)
      @@ ("recommendations" :> <<>>) @@ ("pages" :> <<>>)
      @@ ("persuasiveness" :> <<>>) @@ ("evidence" :> <<>>)

FillJoint(j) ==
    IF DOMAIN j = {} THEN EmptyDict
    ELSE ("indications" :> Get(j, "indications", <<>>))
         @@ ("recommendations" :> Get(j, "recommendations", <<>>))
         @@ ("methods" :> [i \in 1..Len(Get(j, "methods", <<>>)) |-> FillMethod(j["methods"][i])])

FillStage(st) ==
    ("name_stage" :> st["name_stage"])
    @@ ("alternative methods" :>
          [i \in 1..Len(Get(st, "alternative methods", <<>>)) |->
              FillMethod(st["alternative methods"][i])])
    @@ ("joint methods" :> FillJoint(Get(st, "joint methods", EmptyDict)))

FillStages(stages) == [i \in 1..Len(stages) |-> FillStage(stages[i])]

\* a group with its stage list written out; the description is left as it is
FillGroup(g) ==
    ("stage" :> FillStages(Get(g, "stage", <<>>)))
    @@ (IF "patients_indications" \in DOMAIN g
        THEN ("patients_indications" :> g["patients_indications"]) ELSE EmptyDict)

FillVariant(variant) ==
    [p \in 1..Len(variant) |->
        IF IsGroupField(variant[p])
        THEN [variant[p] EXCEPT !.value = [n \in 1..Len(@) |-> FillGroup(@[n])]]
        ELSE variant[p]]

FillDocument(kb) ==
    ("disease" :>
        [d \in 1..Len(kb["disease"]) |->
            Disease(kb["disease"][d]["name"],
                    [v \in 1..Len(kb["disease"][d]["type_variant"]) |->
                        FillVariant(kb["disease"][d]["type_variant"][v])])])

\* a variant whose groups without a description carry the text given
DescribeVariant(variant, text) ==
    [p \in 1..Len(variant) |->
        IF IsGroupField(variant[p])
        THEN [variant[p] EXCEPT !.value =
                [n \in 1..Len(@) |-> @[n] @@ ("patients_indications" :> text)]]
        ELSE variant[p]]

\* the results without the raw methods a joint result carries along
Flat(results) == [i \in 1..Len(results) |-> [results[i] EXCEPT !.joint_methods = <<>>]]

Descriptions(groups) == [i \in 1..Len(groups) |-> groups[i].description]

\* C7: a document that leaves optional fields out is answered as the document
\* that writes them out empty: the same search results, the same plan, the same
\* report; a group without patients_indications is listed with the placeholder
\* description; and no call ends in an error.
C7_MissingFieldsAreEmptyFields ==
    /\ call.error = "none"
    /\ SearchReturned =>
           Flat(call.ret)
               = Flat(search_methods_by_keyword(FillDocument(Repository), call.args[1]))
    /\ call.op = "get_group_plan" =>
           call.ret = get_group_plan(call.args[1],
                          call.args[2] @@ ("patients_indications" :> <<>>) @@ ("stage" :> <<>>))
    /\ call.op = "get_patient_groups" =>
           Descriptions(call.ret)
               = Descriptions(get_patient_groups(DescribeVariant(call.args[1], NO_DESCRIPTION)))
    /\ call.op = "generate_treatment_report" =>
           call.ret = generate_treatment_report(
                          [call.args[1] EXCEPT !.stages = FillStages(@)], call.args[2])

\* a search found a method that has nothing but its used materials
C7_Witness ==
    /\ SearchReturned
    /\ Len(call.ret) = 1
    /\ \E a \in AllAlternatives :
           /\ DOMAIN a.method = {"used material"}
           /\ call.ret[1] = ResultOfAlternative(a)
    /\ Len(call.ret[1].recommendations) = 0
    /\ call.ret[1].method = NO_NAME

(***************************************************************************)
(* get_diseases and get_disease_variants.                                  *)
(***************************************************************************)
Diseases == Repository["disease"]

\* C8 as stated: get_diseases() lists the names in source order and the name of
\* every disease of the document occurs in it exactly once.
C8_EveryNameExactlyOnce ==
    call.op = "get_diseases" =>
        /\ Len(call.ret) = Len(Diseases)
        /\ \A i \in 1..Len(Diseases) : call.ret[i] = Diseases[i]["name"]
        /\ \A d \in 1..Len(Diseases) :
               Cardinality({i \in 1..Len(call.ret) : call.ret[i] = Diseases[d]["name"]}) = 1

\* C8 amended: get_diseases() lists one name per disease, in source order; a name
\* occurs in it as often as the document has diseases of that name, so exactly
\* once where the names of the document are distinct.
C8_OneNamePerDiseaseInOrder ==
    call.op = "get_diseases" =>
        /\ Len(call.ret) = Len(Diseases)
        /\ \A i \in 1..Len(Diseases) : call.ret[i] = Diseases[i]["name"]
        /\ \A d \in 1..Len(Diseases) :
               Cardinality({i \in 1..Len(call.ret) : call.ret[i] = Diseases[d]["name"]})
                   = Cardinality({e \in 1..Len(Diseases) : Diseases[e]["name"] = Diseases[d]["name"]})

\* the names of two diseases with different names came back
C8_Witness ==
    /\ call.op = "get_diseases"
    /\ call.ret = <<D2, D1>>

\* C9: get_disease_variants(name) returns the variant list of the (first) disease
\* of that name, unchanged, and the empty list, without an error, when the
\* document has no disease of that name.
C9_VariantsOfNamedDiseaseOrEmpty ==
    call.op = "get_disease_variants" =>
        LET named == {d \in 1..Len(Diseases) : Diseases[d]["name"] = call.args[1]}
        IN  /\ call.error = "none"
            /\ named = {} => Len(call.ret) = 0
            /\ named # {} =>
                   \E d \in named :
                       /\ \A e \in named : d <= e
                       /\ Len(call.ret) = Len(Diseases[d]["type_variant"])
                       /\ call.ret = Diseases[d]["type_variant"]

\* a name no disease of a document with variants has was looked up
C9_Witness ==
    /\ call.op = "get_disease_variants"
    /\ \A d \in 1..Len(Diseases) : Diseases[d]["name"] # call.args[1]
    /\ \E d \in 1..Len(Diseases) : Len(Diseases[d]["type_variant"]) > 0
    /\ Len(call.ret) = 0

(***************************************************************************)
(* The planning page on a variant without groups.                          *)
(***************************************************************************)
HasNoGroupField(variant) ==
    \A p \in 1..Len(variant) : ~startswith(variant[p].key, GROUP_PREFIX)

\* C10: when the selected variant has no group field, get_patient_groups returns
\* the empty list and the planning page ends without an error: it shows the
\* no-groups warning, selects no group and renders neither a plan nor a report.
C10_NoGroupsHandledWithoutError ==
    (/\ ui.mode = "planning"
     /\ Len(ui.selected_variant) = 1
     /\ HasNoGroupField(ui.selected_variant[1])) =>
        /\ Len(get_patient_groups(ui.selected_variant[1])) = 0
        /\ ui.groups = <<<<>>>>
        /\ ui.error = "none"
        /\ ui.messages = <<"warning_no_groups">>
        /\ Len(ui.selected_group) = 0
        /\ Len(ui.group_plan) = 0
        /\ Len(ui.report) = 0

\* the planning page was rendered for a variant without a group field
C10_Witness ==
    /\ ui.mode = "planning"
    /\ Len(ui.selected_variant) = 1
    /\ HasNoGroupField(ui.selected_variant[1])
    /\ ui.messages = <<"warning_no_groups">>

(***************************************************************************)
(* get_group_plan.                                                         *)
(***************************************************************************)
\* C11: get_group_plan(n, g) returns n as the variant, g's patients_indications
\* as the group description (the empty string when g has none) and g's stage
\* list as the stages (the empty list when g has none): as many stages, each
\* the stage of g at the same place.
C11_PlanIsTheGroupReshaped ==
    call.op = "get_group_plan" =>
        LET n == call.args[1]
            g == call.args[2]
        IN  /\ call.error = "none"
            /\ call.ret.variant = n
            /\ "patients_indications" \in DOMAIN g =>
                   call.ret.group_description = g["patients_indications"]
            /\ "patients_indications" \notin DOMAIN g =>
                   Len(call.ret.group_description) = 0
            /\ "stage" \notin DOMAIN g => Len(call.ret.stages) = 0
            /\ "stage" \in DOMAIN g =>
                   /\ Len(call.ret.stages) = Len(g["stage"])
                   /\ \A i \in 1..Len(g["stage"]) : call.ret.stages[i] = g["stage"][i]

\* the plan of a group of two stages came back, and its stages are in g's order
C11_Witness ==
    /\ call.op = "get_group_plan"
    /\ "stage" \in DOMAIN call.args[2]
    /\ Len(call.args[2]["stage"]) = 2
    /\ call.args[2]["stage"][1]["name_stage"] = S2
    /\ call.ret.stages[1]["name_stage"] = S2
    /\ call.ret.stages[2]["name_stage"] = S1

(***************************************************************************)
(* The group selector of the planning page.                                *)
(***************************************************************************)
\* C12: in planning mode the plan shown belongs to the group the user picked:
\* its stages are the stage list of the group at the picked entry of the group
\* selector, also when two groups of the variant have the same description.
C12_PlanOfPickedGroup ==
    (ui.mode = "planning" /\ Len(ui.group_plan) = 1) =>
        LET g      == ui.groups[1][ui.pick[3]]
            stage  == Get(g.data, "stage", <<>>)
            stages == ui.group_plan[1].stages
        IN  /\ Len(stages) = Len(stage)
            /\ \A i \in 1..Len(stage) : stages[i] = stage[i]

====
